---- MODULE Spec2Model ----
(***************************************************************************)
(* Bao reference implementation (docs/bao-reference.py): the tree codec    *)
(* over the BLAKE3 chaining function.                                      *)
(*                                                                         *)
(* Byte strings are sequences of symbolic bytes.  A content or header byte *)
(* is <<"b", v>> with v in 0..255.  The compression function is idealised  *)
(* as collision-free: a chaining value is the tuple of everything that     *)
(* goes into it (domain flags, offset = chunk index, input bytes), and its *)
(* serialisation is HASH_SIZE symbolic bytes <<"h", cv, k, mask>>, where   *)
(* mask records the bits flipped in that byte of the digest.               *)
(*                                                                         *)
(* The tree model runs with CHUNK_SIZE and HASH_SIZE scaled down (the      *)
(* source has 1024 and 32); the tree geometry is also checked at the       *)
(* source's own chunk size, SOURCE_CHUNK_SIZE.                             *)
(***************************************************************************)
EXTENDS Integers, Sequences, FiniteSets, TLC

\* ---------------------------------------------------------------- sizes
\* Scaled sizes of the tree model (1024 and 32 in the source).
CHUNK_SIZE == 2
HASH_SIZE == 1
PARENT_SIZE == 2 * HASH_SIZE
\* The sizes of the source.
SOURCE_CHUNK_SIZE == 1024
HEADER_SIZE == 8
BYTE_BASE == 256

\* domain flags
CHUNK_START == 1
CHUNK_END == 2
PARENT == 4
ROOT == 8

\* finalization flags
IS_ROOT == "IS_ROOT"
NOT_ROOT == "NOT_ROOT"

\* ---------------------------------------------------------------- bounds
\* Longest content, in bytes.
MaxLen == 11
\* Largest slice_start and slice_len a caller passes.
MaxSliceStart == 12
MaxSliceLen == 12
\* Bits 0..MaxFlipBit of a byte after the header may be flipped; every bit of
\* the header bytes 1..MaxHeaderFlipByte may be flipped.
MaxFlipBit == 0
MaxHeaderFlipByte == 1
\* Largest parent_len of the geometry check, at the source's chunk size.
MaxParentLen == 9300

\* ---------------------------------------------------------------- bytes
Byte(v) == <<"b", v>>

Min(a, b) == IF a < b THEN a ELSE b

Max(a, b) == IF a > b THEN a ELSE b

\* v with bit j flipped (v ^ (1 << j)).
XorBit(v, j) == IF (v \div (2 ^ j)) % 2 = 1 THEN v - 2 ^ j ELSE v + 2 ^ j

\* A stream byte with bit j flipped.
FlipBit(e, j) ==
    IF e[1] = "b" THEN Byte(XorBit(e[2], j))
    ELSE <<"h", e[2], e[3], XorBit(e[4], j)>>

\* stream[p] (1-based) with bit j flipped.
FlipAt(stream, p, j) == [stream EXCEPT ![p] = FlipBit(stream[p], j)]

IsPrefix(s, t) == Len(s) <= Len(t) /\ SubSeq(t, 1, Len(s)) = s

\* buf[a:b] of Python, for 0 <= a.
Slice(buf, a, b) == SubSeq(buf, a + 1, Min(b, Len(buf)))

\* ---------------------------------------------------------------- length header
RECURSIVE to_bytes(_, _)
to_bytes(n, size) ==
    IF size = 0 THEN <<>>
    ELSE <<Byte(n % BYTE_BASE)>> \o to_bytes(n \div BYTE_BASE, size - 1)

RECURSIVE from_bytes(_)
from_bytes(bs) ==
    IF bs = <<>> THEN 0
    ELSE Head(bs)[2] + BYTE_BASE * from_bytes(Tail(bs))

encode_len(content_len) == to_bytes(content_len, HEADER_SIZE)

decode_len(len_bytes) == from_bytes(len_bytes)

\* ---------------------------------------------------------------- chaining values
\* The compression function, idealised: injective in all it reads.
compress(block, offset, flags) == <<flags, offset, block>>

bytes_from_words(cv) == [k \in 1..HASH_SIZE |-> <<"h", cv, k, 0>>]

chunk_chaining_value(chunk_bytes, chunk_index, finalization) ==
    LET flags == CHUNK_START + CHUNK_END
                 + (IF finalization = IS_ROOT THEN ROOT ELSE 0)
    IN bytes_from_words(compress(chunk_bytes, chunk_index, flags))

parent_chaining_value(parent_bytes, finalization) ==
    LET flags == PARENT + (IF finalization = IS_ROOT THEN ROOT ELSE 0)
    IN bytes_from_words(compress(parent_bytes, 0, flags))

\* verify_chunk comparing the lengths of the digests, not the digests.
verify_chunk_lengths(expected_cv, chunk_bytes, chunk_index, finalization) ==
    Len(chunk_chaining_value(chunk_bytes, chunk_index, finalization)) = Len(expected_cv)

\* TRUE iff the assertion passes.
verify_chunk(expected_cv, chunk_bytes, chunk_index, finalization) ==
    chunk_chaining_value(chunk_bytes, chunk_index, finalization) = expected_cv

\* verify_parent comparing the lengths of the digests, not the digests.
verify_parent_lengths(expected_cv, parent_bytes, finalization) ==
    Len(parent_chaining_value(parent_bytes, finalization)) = Len(expected_cv)

verify_parent(expected_cv, parent_bytes, finalization) ==
    parent_chaining_value(parent_bytes, finalization) = expected_cv

\* n bytes of stream after the first pos, or unexpected EOF.
read_exact(stream, pos, n) ==
    IF pos + n <= Len(stream)
    THEN [ok |-> TRUE, data |-> SubSeq(stream, pos + 1, pos + n)]
    ELSE [ok |-> FALSE, data |-> <<>>]

\* ---------------------------------------------------------------- tree geometry
RECURSIVE bit_length(_)
bit_length(n) == IF n = 0 THEN 0 ELSE 1 + bit_length(n \div 2)

\* left_len without the byte kept for the right subtree.
left_len_of_no_spare(chunk_size, parent_len) ==
    LET available_chunks == parent_len \div chunk_size
        power_of_two_chunks == 2 ^ (bit_length(available_chunks) - 1)
    IN chunk_size * power_of_two_chunks

\* left_len with the chunk size as a parameter.
left_len_of(chunk_size, parent_len) ==
    LET available_chunks == (parent_len - 1) \div chunk_size
        power_of_two_chunks == 2 ^ (bit_length(available_chunks) - 1)
    IN chunk_size * power_of_two_chunks

left_len(parent_len) == left_len_of(CHUNK_SIZE, parent_len)

count_chunks(content_len) ==
    IF content_len = 0 THEN 1
    ELSE (content_len + CHUNK_SIZE - 1) \div CHUNK_SIZE

encoded_subtree_size(content_len, outboard_only) ==
    LET parents_size == PARENT_SIZE * (count_chunks(content_len) - 1)
    IN IF outboard_only THEN parents_size ELSE parents_size + content_len

\* ---------------------------------------------------------------- encoder
\* encode_recurse, with the nonlocal chunk_index threaded through.
RECURSIVE encode_recurse(_, _, _, _)
encode_recurse(buf, idx, finalization, ob) ==
    IF Len(buf) <= CHUNK_SIZE
    THEN [encoded |-> IF ob THEN <<>> ELSE buf,
          cv |-> chunk_chaining_value(buf, idx, finalization),
          chunk_index |-> idx + 1]
    ELSE LET llen == left_len(Len(buf))
             left == encode_recurse(SubSeq(buf, 1, llen), idx, NOT_ROOT, ob)
             right == encode_recurse(SubSeq(buf, llen + 1, Len(buf)),
                                     left.chunk_index, NOT_ROOT, ob)
             node == left.cv \o right.cv
         IN [encoded |-> node \o left.encoded \o right.encoded,
             cv |-> parent_chaining_value(node, finalization),
             chunk_index |-> right.chunk_index]

bao_encode(buf, ob) ==
    LET r == encode_recurse(buf, 0, IS_ROOT, ob)
    IN [output |-> encode_len(Len(buf)) \o r.encoded, hash |-> r.cv]

\* ---------------------------------------------------------------- state
VARIABLES
    x,                \* the content
    pc,               \* where the current call stands
    outboard,         \* whether the encoding is outboard
    hash_,            \* the root hash bao_encode returned
    input_stream,     \* the consumer's input_stream
    outboard_stream,  \* the consumer's outboard_stream (<<>> when None)
    pos,              \* bytes consumed of input_stream ("in"), outboard_stream ("ob")
    output_stream,    \* the bytes written to the sink
    stack,            \* the pending decode_recurse / decode_slice_recurse calls
    chunk_index,      \* bao_decode's chunk counter
    content_len,      \* the decoded length header
    slice_arg,        \* the (slice_start, slice_len) the caller passed
    slice_start,      \* bao_decode_slice's slice_start, normalised
    slice_end,        \* bao_decode_slice's slice_end
    skip_output,      \* bao_decode_slice's skip_output
    status,           \* "running", "ok", "hash mismatch", "unexpected EOF"
    tamper,           \* what was done to the stream between producer and consumer
    source_pos,       \* bao_hash: bytes of x already read
    buf,              \* bao_hash: buf
    chunks,           \* bao_hash: chunks
    subtrees,         \* bao_hash: subtrees
    result,           \* bao_hash: the returned hash (<<>> before the return)
    full_reads,       \* bao_hash: every read so far returned CHUNK_SIZE bytes when that many remained
    parent_len,       \* left_len's argument, at the source's chunk size
    llen              \* left_len's result

codecVars == <<outboard, hash_, input_stream, outboard_stream, pos, output_stream,
               stack, chunk_index, content_len, slice_arg, slice_start, slice_end,
               skip_output, status, tamper>>

hashVars == <<source_pos, buf, chunks, subtrees, result, full_reads>>

geomVars == <<parent_len, llen>>

vars == <<x, pc, codecVars, hashVars, geomVars>>

\* The contents: all zero bytes, or the byte at offset i is i & 0xff.
Content(n, pattern) ==
    [i \in 1..n |-> IF pattern = "zeros" THEN Byte(0) ELSE Byte((i - 1) % BYTE_BASE)]

Inputs == {Content(n, p) : n \in 0..MaxLen, p \in {"zeros", "ramp"}}

NoPos == [in |-> 0, ob |-> 0]

InitRest ==
    /\ outboard = FALSE
    /\ hash_ = <<>>
    /\ input_stream = <<>>
    /\ outboard_stream = <<>>
    /\ pos = NoPos
    /\ output_stream = <<>>
    /\ stack = <<>>
    /\ chunk_index = 0
    /\ content_len = 0
    /\ slice_arg = <<0, 0>>
    /\ slice_start = 0
    /\ slice_end = 0
    /\ skip_output = FALSE
    /\ status = "running"
    /\ tamper = "none"
    /\ source_pos = 0
    /\ buf = <<>>
    /\ chunks = 0
    /\ subtrees = <<>>
    /\ result = <<>>
    /\ full_reads = TRUE
    /\ llen = 0

Init ==
    /\ x \in Inputs
    /\ pc = "start"
    /\ parent_len = 0
    /\ InitRest

\* ---------------------------------------------------------------- encode
\* bao_encode(x, outboard=ob); its output and x become the consumer's streams.
Encode(ob) ==
    /\ pc = "start"
    /\ LET e == bao_encode(x, ob)
       IN /\ hash_' = e.hash
          /\ input_stream' = IF ob THEN x ELSE e.output
          /\ outboard_stream' = IF ob THEN e.output ELSE <<>>
    /\ outboard' = ob
    /\ pc' = "encoded"
    /\ UNCHANGED <<x, pos, output_stream, stack, chunk_index, content_len, slice_arg,
                   slice_start, slice_end, skip_output, status, tamper, hashVars,
                   geomVars>>

\* tree_stream = outboard_stream or input_stream
tree == IF outboard THEN "ob" ELSE "in"

stream_of(name) == IF name = "ob" THEN outboard_stream ELSE input_stream

\* ---------------------------------------------------------------- the transport
\* What a flip at byte p (1-based) of stream name hits.
FlipKind(name, p) ==
    IF name = tree /\ p <= HEADER_SIZE THEN "header"
    ELSE IF name = tree THEN (IF outboard THEN "parent" ELSE "body")
    ELSE "content"

\* One bit of one byte of a stream is flipped on the way to the consumer.
FlipStream(name, p, j, from, to) ==
    /\ pc = from
    /\ p \in 1..Len(stream_of(name))
    /\ IF FlipKind(name, p) = "header"
       THEN p <= MaxHeaderFlipByte /\ j \in 0..7
       ELSE j \in 0..MaxFlipBit
    /\ input_stream' = IF name = "in" THEN FlipAt(input_stream, p, j) ELSE input_stream
    /\ outboard_stream' = IF name = "ob" THEN FlipAt(outboard_stream, p, j)
                          ELSE outboard_stream
    /\ tamper' = FlipKind(name, p)
    /\ pc' = to
    /\ UNCHANGED <<x, outboard, hash_, pos, output_stream, stack, chunk_index,
                   content_len, slice_arg, slice_start, slice_end, skip_output, status,
                   hashVars, geomVars>>

\* A stream is cut short on the way to the consumer.
CutStream(name, k, from, to) ==
    /\ pc = from
    /\ k \in 0..(Len(stream_of(name)) - 1)
    /\ input_stream' = IF name = "in" THEN SubSeq(input_stream, 1, k) ELSE input_stream
    /\ outboard_stream' = IF name = "ob" THEN SubSeq(outboard_stream, 1, k)
                          ELSE outboard_stream
    /\ tamper' = "truncated"
    /\ pc' = to
    /\ UNCHANGED <<x, outboard, hash_, pos, output_stream, stack, chunk_index,
                   content_len, slice_arg, slice_start, slice_end, skip_output, status,
                   hashVars, geomVars>>

Tamper ==
    /\ pc = "encoded"
    /\ \E name \in {"in", "ob"} :
          \E p \in 1..Len(stream_of(name)), j \in 0..7 :
              FlipStream(name, p, j, "encoded", "tampered")

Truncate ==
    /\ pc = "encoded"
    /\ \E name \in {"in", "ob"} :
          \E k \in 0..(Len(stream_of(name)) - 1) :
              CutStream(name, k, "encoded", "tampered")

\* ---------------------------------------------------------------- bao_decode
\* decode_recurse passing llen to both recursive calls.
decode_children_llen_twice(parent, len) ==
    LET left_cv == SubSeq(parent, 1, HASH_SIZE)
        right_cv == SubSeq(parent, HASH_SIZE + 1, PARENT_SIZE)
        ll == left_len(len)
    IN << [cv |-> left_cv, len |-> ll, fin |-> NOT_ROOT],
          [cv |-> right_cv, len |-> ll, fin |-> NOT_ROOT] >>

\* The calls decode_recurse makes for a verified parent node, first on top.
decode_children(parent, len) ==
    LET left_cv == SubSeq(parent, 1, HASH_SIZE)
        right_cv == SubSeq(parent, HASH_SIZE + 1, PARENT_SIZE)
        ll == left_len(len)
    IN << [cv |-> left_cv, len |-> ll, fin |-> NOT_ROOT],
          [cv |-> right_cv, len |-> len - ll, fin |-> NOT_ROOT] >>

\* The failure is recorded and the call goes on.
Raise_recorded(what) ==
    /\ status' = what
    /\ pc' = pc

\* The call raises: nothing more is read or written.
Raise(what) ==
    /\ status' = what
    /\ pc' = "decoded"

\* bao_decode up to its call of decode_recurse: the header is read.
DecodeStart ==
    /\ pc \in {"encoded", "tampered"}
    /\ LET r == read_exact(stream_of(tree), pos[tree], HEADER_SIZE)
       IN IF ~r.ok
          THEN /\ Raise("unexpected EOF")
               /\ pos' = [pos EXCEPT ![tree] = Len(stream_of(tree))]
               /\ UNCHANGED <<content_len, stack>>
          ELSE /\ content_len' = decode_len(r.data)
               /\ pos' = [pos EXCEPT ![tree] = @ + HEADER_SIZE]
               /\ stack' = << [cv |-> hash_, len |-> decode_len(r.data), fin |-> IS_ROOT] >>
               /\ pc' = "decode"
               /\ UNCHANGED status
    /\ chunk_index' = 0
    /\ UNCHANGED <<x, outboard, hash_, input_stream, outboard_stream, output_stream,
                   slice_arg, slice_start, slice_end, skip_output, tamper, hashVars,
                   geomVars>>

\* One call of decode_recurse, up to its recursive calls.
DecodeStep ==
    /\ pc = "decode"
    /\ LET f == Head(stack)
           name == IF f.len <= CHUNK_SIZE THEN "in" ELSE tree
           n == IF f.len <= CHUNK_SIZE THEN f.len ELSE PARENT_SIZE
           r == read_exact(stream_of(name), pos[name], n)
       IN IF ~r.ok
          THEN /\ Raise("unexpected EOF")
               /\ pos' = [pos EXCEPT ![name] = Len(stream_of(name))]
               /\ UNCHANGED <<stack, chunk_index, output_stream>>
          ELSE /\ pos' = [pos EXCEPT ![name] = @ + n]
               /\ IF f.len <= CHUNK_SIZE
                  THEN IF verify_chunk(f.cv, r.data, chunk_index, f.fin)
                       THEN /\ chunk_index' = chunk_index + 1
                            /\ output_stream' = output_stream \o r.data
                            /\ stack' = Tail(stack)
                            /\ pc' = IF Tail(stack) = <<>> THEN "decoded" ELSE "decode"
                            /\ status' = IF Tail(stack) = <<>> THEN "ok" ELSE status
                       ELSE /\ Raise("hash mismatch")
                            /\ UNCHANGED <<stack, chunk_index, output_stream>>
                  ELSE IF verify_parent(f.cv, r.data, f.fin)
                       THEN /\ stack' = decode_children(r.data, f.len) \o Tail(stack)
                            /\ UNCHANGED <<pc, status, chunk_index, output_stream>>
                       ELSE /\ Raise("hash mismatch")
                            /\ UNCHANGED <<stack, chunk_index, output_stream>>
    /\ UNCHANGED <<x, outboard, hash_, input_stream, outboard_stream, content_len,
                   slice_arg, slice_start, slice_end, skip_output, tamper, hashVars,
                   geomVars>>

NextDecode ==
    \/ \E ob \in BOOLEAN : Encode(ob)
    \/ Tamper
    \/ Truncate
    \/ DecodeStart
    \/ DecodeStep

SpecDecode == Init /\ [][NextDecode]_vars

\* ---------------------------------------------------------------- bao_slice
\* bao_slice's normalisation of its range.
slice_range(start, len, clen) ==
    LET len1 == IF len = 0 THEN 1 ELSE len
    IN [slice_end |-> start + len1,
        slice_start |-> IF start >= clen
                        THEN (IF clen > 0 THEN clen - 1 ELSE 0)
                        ELSE start]

\* slice_recurse; c holds what the closure captures, st the stream positions,
\* the bytes written and whether no read_exact has raised.
RECURSIVE slice_recurse(_, _, _, _)
slice_recurse(c, st, subtree_start, subtree_len) ==
    LET subtree_end == subtree_start + subtree_len
    IN IF ~st.ok THEN st
       ELSE IF subtree_end <= c.slice_start
       THEN LET parent_nodes_size == encoded_subtree_size(subtree_len, TRUE)
                seek1 == [st.pos EXCEPT ![c.tree] = @ + parent_nodes_size]
            IN [st EXCEPT !.pos = [seek1 EXCEPT !["in"] = @ + subtree_len]]
       ELSE IF c.slice_end <= subtree_start
       THEN st
       ELSE IF subtree_len <= CHUNK_SIZE
       THEN LET r == read_exact(c.input_stream, st.pos["in"], subtree_len)
            IN IF r.ok
               THEN [st EXCEPT !.pos["in"] = @ + subtree_len, !.out = @ \o r.data]
               ELSE [st EXCEPT !.ok = FALSE]
       ELSE LET r == read_exact(c.tree_stream, st.pos[c.tree], PARENT_SIZE)
                ll == left_len(subtree_len)
                s1 == [st EXCEPT !.pos[c.tree] = @ + PARENT_SIZE, !.out = @ \o r.data]
                s2 == slice_recurse(c, s1, subtree_start, ll)
            IN IF r.ok
               THEN slice_recurse(c, s2, subtree_start + ll, subtree_len - ll)
               ELSE [st EXCEPT !.ok = FALSE]

bao_slice(in_s, ob_s, ob, start, len) ==
    LET t == IF ob THEN "ob" ELSE "in"
        tree_stream == IF ob THEN ob_s ELSE in_s
        hdr == read_exact(tree_stream, 0, HEADER_SIZE)
        clen == decode_len(hdr.data)
        rng == slice_range(start, len, clen)
        c == [slice_start |-> rng.slice_start, slice_end |-> rng.slice_end,
              tree |-> t, tree_stream |-> tree_stream, input_stream |-> in_s]
        st0 == [pos |-> [NoPos EXCEPT ![t] = HEADER_SIZE], out |-> hdr.data, ok |-> TRUE]
    IN IF hdr.ok THEN slice_recurse(c, st0, 0, clen)
       ELSE [pos |-> NoPos, out |-> <<>>, ok |-> FALSE]

\* bao_slice on the encoding, combined or outboard; the slice it writes becomes the
\* input_stream of bao_decode_slice, which takes no outboard stream.
MakeSlice(start, len) ==
    /\ pc = "encoded"
    /\ LET s == bao_slice(input_stream, outboard_stream, outboard, start, len)
       IN /\ input_stream' = s.out
          /\ pc' = IF s.ok THEN "sliced" ELSE "slice_failed"
          /\ status' = IF s.ok THEN status ELSE "unexpected EOF"
    /\ outboard_stream' = <<>>
    /\ outboard' = FALSE
    /\ slice_arg' = <<start, len>>
    /\ UNCHANGED <<x, hash_, pos, output_stream, stack, chunk_index,
                   content_len, slice_start, slice_end, skip_output, tamper,
                   hashVars, geomVars>>

TamperSlice ==
    /\ pc = "sliced"
    /\ \E p \in 1..Len(input_stream), j \in 0..7 :
          FlipStream("in", p, j, "sliced", "slice_tampered")

TruncateSlice ==
    /\ pc = "sliced"
    /\ \E k \in 0..(Len(input_stream) - 1) :
          CutStream("in", k, "sliced", "slice_tampered")

\* ---------------------------------------------------------------- bao_decode_slice
\* The normalisation without skip_output for a start past the end.
decode_slice_range_no_skip(start, len, clen) ==
    LET len1 == IF len = 0 THEN 1 ELSE len
    IN [slice_end |-> start + len1,
        slice_start |-> IF start >= clen
                        THEN (IF clen > 0 THEN clen - 1 ELSE 0)
                        ELSE start,
        skip_output |-> (len = 0)]

\* bao_decode_slice's normalisation of its range.
decode_slice_range(start, len, clen) ==
    LET len1 == IF len = 0 THEN 1 ELSE len
    IN [slice_end |-> start + len1,
        slice_start |-> IF start >= clen
                        THEN (IF clen > 0 THEN clen - 1 ELSE 0)
                        ELSE start,
        skip_output |-> (len = 0 \/ start >= clen)]

\* The calls decode_slice_recurse makes for a verified parent node, first on top.
decode_slice_children(parent, subtree_start, subtree_len) ==
    LET left_cv == SubSeq(parent, 1, HASH_SIZE)
        right_cv == SubSeq(parent, HASH_SIZE + 1, PARENT_SIZE)
        ll == left_len(subtree_len)
    IN << [start |-> subtree_start, len |-> ll, cv |-> left_cv, fin |-> NOT_ROOT],
          [start |-> subtree_start + ll, len |-> subtree_len - ll, cv |-> right_cv,
           fin |-> NOT_ROOT] >>

\* decode_slice_recurse writing the whole chunk.
chunk_output_whole(chunk, subtree_start, subtree_len, s_start, s_end, skip) ==
    IF skip THEN <<>> ELSE chunk

\* What decode_slice_recurse writes of a verified chunk.
chunk_output(chunk, subtree_start, subtree_len, s_start, s_end, skip) ==
    LET chunk_start == Max(0, Min(subtree_len, s_start - subtree_start))
        chunk_end == Max(0, Min(subtree_len, s_end - subtree_start))
    IN IF skip THEN <<>> ELSE Slice(chunk, chunk_start, chunk_end)

\* Whether decode_slice_recurse passes over a subtree without reading it.
slice_skips(subtree_start, subtree_len, s_start, s_end, clen) ==
    \/ subtree_start + subtree_len <= s_start /\ clen > 0
    \/ s_end <= subtree_start /\ clen > 0

RaiseSlice(what) ==
    /\ status' = what
    /\ pc' = "slice_decoded"

\* bao_decode_slice up to its call of decode_slice_recurse.
DecodeSliceStart ==
    /\ pc \in {"sliced", "slice_tampered"}
    /\ LET r == read_exact(input_stream, pos["in"], HEADER_SIZE)
           clen == decode_len(r.data)
           rng == decode_slice_range(slice_arg[1], slice_arg[2], clen)
       IN IF ~r.ok
          THEN /\ RaiseSlice("unexpected EOF")
               /\ pos' = [pos EXCEPT !["in"] = Len(input_stream)]
               /\ UNCHANGED <<content_len, stack, slice_start, slice_end, skip_output>>
          ELSE /\ content_len' = clen
               /\ pos' = [pos EXCEPT !["in"] = @ + HEADER_SIZE]
               /\ slice_start' = rng.slice_start
               /\ slice_end' = rng.slice_end
               /\ skip_output' = rng.skip_output
               /\ stack' = << [start |-> 0, len |-> clen, cv |-> hash_, fin |-> IS_ROOT] >>
               /\ pc' = "decode_slice"
               /\ UNCHANGED status
    /\ UNCHANGED <<x, outboard, hash_, input_stream, outboard_stream, output_stream,
                   chunk_index, slice_arg, tamper, hashVars, geomVars>>

\* The call on top of the stack returns.
ReturnSlice ==
    /\ stack' = Tail(stack)
    /\ pc' = IF Tail(stack) = <<>> THEN "slice_decoded" ELSE "decode_slice"
    /\ status' = IF Tail(stack) = <<>> THEN "ok" ELSE status

\* One call of decode_slice_recurse, up to its recursive calls.
DecodeSliceStep ==
    /\ pc = "decode_slice"
    /\ LET f == Head(stack)
           n == IF f.len <= CHUNK_SIZE THEN f.len ELSE PARENT_SIZE
           r == read_exact(input_stream, pos["in"], n)
       IN IF slice_skips(f.start, f.len, slice_start, slice_end, content_len)
          THEN /\ ReturnSlice
               /\ UNCHANGED <<pos, output_stream>>
          ELSE IF ~r.ok
          THEN /\ RaiseSlice("unexpected EOF")
               /\ pos' = [pos EXCEPT !["in"] = Len(input_stream)]
               /\ UNCHANGED <<stack, output_stream>>
          ELSE /\ pos' = [pos EXCEPT !["in"] = @ + n]
               /\ IF f.len <= CHUNK_SIZE
                  THEN IF verify_chunk(f.cv, r.data, f.start \div CHUNK_SIZE, f.fin)
                       THEN /\ output_stream' = output_stream
                                   \o chunk_output(r.data, f.start, f.len, slice_start,
                                                   slice_end, skip_output)
                            /\ ReturnSlice
                       ELSE /\ RaiseSlice("hash mismatch")
                            /\ UNCHANGED <<stack, output_stream>>
                  ELSE IF verify_parent(f.cv, r.data, f.fin)
                       THEN /\ stack' = decode_slice_children(r.data, f.start, f.len)
                                        \o Tail(stack)
                            /\ UNCHANGED <<pc, status, output_stream>>
                       ELSE /\ RaiseSlice("hash mismatch")
                            /\ UNCHANGED <<stack, output_stream>>
    /\ UNCHANGED <<x, outboard, hash_, input_stream, outboard_stream, chunk_index,
                   content_len, slice_arg, slice_start, slice_end, skip_output, tamper,
                   hashVars, geomVars>>

Next ==
    \/ \E ob \in BOOLEAN : Encode(ob)
    \/ Tamper
    \/ Truncate
    \/ DecodeStart
    \/ DecodeStep
    \/ pc = "encoded"
         /\ \E start \in 0..MaxSliceStart, len \in 0..MaxSliceLen : MakeSlice(start, len)
    \/ TamperSlice
    \/ TruncateSlice
    \/ DecodeSliceStart
    \/ DecodeSliceStep

Spec == Init /\ [][Next]_vars

\* ---------------------------------------------------------------- bao_hash
\* bin(n).count("1")
RECURSIVE popcount(_)
popcount(n) == IF n = 0 THEN 0 ELSE (n % 2) + popcount(n \div 2)

\* The stack depth taken from the bit length of chunks.
total_after_merging_bit_length(n) == bit_length(n)

total_after_merging(n) == popcount(n)

\* The merge loop after a full chunk: pop and merge while the stack is too deep.
RECURSIVE merge_subtrees(_, _, _)
merge_subtrees(stk, new_subtree, total) ==
    IF Len(stk) + 1 > total
    THEN merge_subtrees(SubSeq(stk, 1, Len(stk) - 1),
                        parent_chaining_value(stk[Len(stk)] \o new_subtree, NOT_ROOT),
                        total)
    ELSE Append(stk, new_subtree)

\* The merge loop at EOF without the ROOT flag on the last parent.
RECURSIVE finish_subtrees_not_root(_, _)
finish_subtrees_not_root(stk, new_subtree) ==
    IF Len(stk) > 1
    THEN finish_subtrees_not_root(SubSeq(stk, 1, Len(stk) - 1),
                                  parent_chaining_value(stk[Len(stk)] \o new_subtree,
                                                        NOT_ROOT))
    ELSE parent_chaining_value(stk[1] \o new_subtree, NOT_ROOT)

\* The merge loop at EOF: pop and merge down to one entry, then the root parent.
RECURSIVE finish_subtrees(_, _)
finish_subtrees(stk, new_subtree) ==
    IF Len(stk) > 1
    THEN finish_subtrees(SubSeq(stk, 1, Len(stk) - 1),
                         parent_chaining_value(stk[Len(stk)] \o new_subtree, NOT_ROOT))
    ELSE parent_chaining_value(stk[1] \o new_subtree, IS_ROOT)

\* bao_hash up to its loop.
HashStart ==
    /\ pc = "start"
    /\ buf' = <<>>
    /\ chunks' = 0
    /\ subtrees' = <<>>
    /\ pc' = "hash"
    /\ UNCHANGED <<x, codecVars, source_pos, result, full_reads, geomVars>>

\* One turn of the loop in which read(CHUNK_SIZE) returns k > 0 bytes.
HashRead(k) ==
    /\ pc = "hash"
    /\ k \in 1..Min(CHUNK_SIZE, Len(x) - source_pos)
    /\ LET read == SubSeq(x, source_pos + 1, source_pos + k)
       IN IF Len(buf) >= CHUNK_SIZE
          THEN LET new_subtree == chunk_chaining_value(Slice(buf, 0, CHUNK_SIZE),
                                                       chunks, NOT_ROOT)
               IN /\ chunks' = chunks + 1
                  /\ subtrees' = merge_subtrees(subtrees, new_subtree,
                                                total_after_merging(chunks + 1))
                  /\ buf' = Slice(buf, CHUNK_SIZE, Len(buf)) \o read
          ELSE /\ buf' = buf \o read
               /\ UNCHANGED <<chunks, subtrees>>
    /\ source_pos' = source_pos + k
    /\ full_reads' = (full_reads /\ (Len(x) - source_pos >= CHUNK_SIZE => k = CHUNK_SIZE))
    /\ UNCHANGED <<x, pc, codecVars, result, geomVars>>

\* The turn of the loop in which read(CHUNK_SIZE) returns nothing: the return.
HashEOF ==
    /\ pc = "hash"
    /\ source_pos = Len(x)
    /\ result' = IF chunks = 0
                 THEN chunk_chaining_value(buf, chunks, IS_ROOT)
                 ELSE finish_subtrees(subtrees,
                                      chunk_chaining_value(buf, chunks, NOT_ROOT))
    /\ pc' = "hashed"
    /\ UNCHANGED <<x, codecVars, source_pos, buf, chunks, subtrees, full_reads, geomVars>>

NextHash ==
    \/ HashStart
    \/ \E k \in 1..CHUNK_SIZE : HashRead(k)
    \/ HashEOF

SpecHash == Init /\ [][NextHash]_vars

\* ---------------------------------------------------------------- left_len alone
InitGeom ==
    /\ x = <<>>
    /\ pc = "geom"
    /\ parent_len \in (SOURCE_CHUNK_SIZE + 1)..MaxParentLen
    /\ InitRest

\* left_len(parent_len) with CHUNK_SIZE = 1024, as in the source.
LeftLen ==
    /\ pc = "geom"
    /\ llen' = left_len_of(SOURCE_CHUNK_SIZE, parent_len)
    /\ pc' = "geom_done"
    /\ UNCHANGED <<x, codecVars, hashVars, parent_len>>

NextGeom == LeftLen

SpecGeom == InitGeom /\ [][NextGeom]_vars

\* ================================================================ properties
\* x[a:a+n] of Python.
Range(a, n) == Slice(x, a, a + n)

\* The chaining values of all nodes of the tree of buf, in pre-order.
RECURSIVE TreeCVs(_, _, _)
TreeCVs(bs, idx, finalization) ==
    IF Len(bs) <= CHUNK_SIZE
    THEN << chunk_chaining_value(bs, idx, finalization) >>
    ELSE LET ll == left_len(Len(bs))
         IN << encode_recurse(bs, idx, finalization, TRUE).cv >>
            \o TreeCVs(SubSeq(bs, 1, ll), idx, NOT_ROOT)
            \o TreeCVs(SubSeq(bs, ll + 1, Len(bs)), idx + ll \div CHUNK_SIZE, NOT_ROOT)

\* Every expected chaining value on the stack is one of a node of the tree of x.
AuthenticStack ==
    LET cvs == TreeCVs(x, 0, IS_ROOT)
    IN \A i \in 1..Len(stack) : \E j \in 1..Len(cvs) : cvs[j] = stack[i].cv

\* The parent nodes on the path from the root of bs's tree to chunk k, then chunk k.
RECURSIVE Chain(_, _, _)
Chain(bs, idx, k) ==
    IF Len(bs) <= CHUNK_SIZE THEN bs
    ELSE LET ll == left_len(Len(bs))
             mid == idx + ll \div CHUNK_SIZE
             left == SubSeq(bs, 1, ll)
             right == SubSeq(bs, ll + 1, Len(bs))
             node == encode_recurse(left, idx, NOT_ROOT, TRUE).cv
                     \o encode_recurse(right, mid, NOT_ROOT, TRUE).cv
         IN node \o (IF k < mid THEN Chain(left, idx, k) ELSE Chain(right, mid, k))

\* The chunk a degenerate range (start >= |x| or len = 0) is covered by.
CoveringChunk(start) ==
    IF start >= Len(x) THEN count_chunks(Len(x)) - 1 ELSE start \div CHUNK_SIZE

Degenerate == slice_arg[1] >= Len(x) \/ slice_arg[2] = 0

\* The chaining values of the complete subtrees over chunks first..first+n-1 given
\* by the set bits of n, most significant first.
RECURSIVE CompleteSubtrees(_, _)
CompleteSubtrees(first, n) ==
    IF n = 0 THEN <<>>
    ELSE LET p == 2 ^ (bit_length(n) - 1)
             bytes == SubSeq(x, first * CHUNK_SIZE + 1, (first + p) * CHUNK_SIZE)
         IN << encode_recurse(bytes, first, NOT_ROOT, TRUE).cv >>
            \o CompleteSubtrees(first + p, n - p)

\* The largest power of two that is at most a, for a >= 1.
LargestPowerOfTwo(a) == CHOOSE p \in {2 ^ e : e \in 0..20} : p <= a /\ a < 2 * p

\* C1: bao_decode on the stream bao_encode(x) produced (parents from the outboard
\* stream and chunks from x in outboard mode), with the hash bao_encode returned,
\* ends without error having written exactly x; until then it has work to do and
\* no error.
C1_RoundTrip ==
    /\ (pc = "decoded" /\ tamper = "none") => (status = "ok" /\ output_stream = x)
    /\ (pc = "decode" /\ tamper = "none") => (status = "running" /\ stack # <<>>)

C1_Witness ==
    /\ pc = "decoded" /\ tamper = "none" /\ outboard
    /\ Len(x) > 2 * CHUNK_SIZE /\ Len(x) % CHUNK_SIZE # 0
    /\ x[1] # x[2]
    /\ output_stream = x

\* C4: with one bit flipped in a non-header byte of the combined encoding, or in a
\* parent node of the outboard encoding, bao_decode with the true root hash fails
\* with a hash mismatch.
C4_TamperDetected ==
    (pc = "decoded" /\ tamper \in {"body", "parent"}) => status = "hash mismatch"

C4_Witness ==
    /\ pc = "decoded" /\ tamper = "body" /\ status = "hash mismatch"
    /\ output_stream # <<>>

\* C3: for start + len <= |x|, bao_decode_slice on the slice bao_slice made of the
\* encoding of x (combined or outboard) ends without error having written exactly
\* x[start:start+len]; bao_slice itself does not fail.
C3_SliceSound ==
    /\ pc # "slice_failed"
    /\ (pc = "slice_decoded" /\ tamper = "none"
        /\ slice_arg[1] + slice_arg[2] <= Len(x))
       => (status = "ok" /\ output_stream = Range(slice_arg[1], slice_arg[2]))
    /\ (pc = "decode_slice" /\ tamper = "none") => (status = "running" /\ stack # <<>>)

C3_Witness ==
    /\ pc = "slice_decoded" /\ tamper = "none"
    /\ Len(x) = 4 * CHUNK_SIZE + 1 /\ x[1] # x[2]
    /\ slice_arg = <<CHUNK_SIZE + 1, 2 * CHUNK_SIZE>>
    /\ output_stream = Range(CHUNK_SIZE + 1, 2 * CHUNK_SIZE)
    /\ Len(output_stream) = 2 * CHUNK_SIZE

\* C5 as claimed: with one bit flipped anywhere in the slice stream, the header
\* included, bao_decode_slice with the true root hash and the same range fails.
C5_AnyFlipDetected ==
    (pc = "slice_decoded" /\ tamper \in {"header", "body"}) => status # "ok"

\* C5 as amended: with one bit flipped in a byte after the 8-byte header of the
\* slice stream, bao_decode_slice with the true root hash and the same range fails
\* (hash mismatch or unexpected EOF); with one bit flipped in the header it fails
\* or returns having written exactly x[start:start+len].
C5_FlipDetectedOrExact ==
    pc = "slice_decoded" =>
        /\ tamper = "body" => status \in {"hash mismatch", "unexpected EOF"}
        /\ tamper = "header"
             => \/ status \in {"hash mismatch", "unexpected EOF"}
                \/ /\ status = "ok"
                   /\ output_stream = Range(slice_arg[1], slice_arg[2])

C5_Witness ==
    /\ pc = "slice_decoded" /\ tamper = "body" /\ status = "hash mismatch"
    /\ Len(x) > 2 * CHUNK_SIZE
    /\ output_stream # <<>>

\* C6: whatever stream the decoders are given (valid, one bit flipped, cut short),
\* every expected chaining value they hold is one of a node of the tree of x, the
\* bytes written so far are a prefix of x (bao_decode) or of x[start:start+len]
\* (bao_decode_slice), bytes are written only in a step whose chunk passes its check
\* against such a value, and once a call has failed nothing more is read or written.
C6_Held ==
    /\ pc \in {"decode", "decoded"} => IsPrefix(output_stream, x)
    /\ pc \in {"decode_slice", "slice_decoded"}
         => IsPrefix(output_stream, Range(slice_arg[1], slice_arg[2]))
    /\ pc \in {"decode", "decode_slice"} => AuthenticStack

C6_Step ==
    /\ output_stream' # output_stream
         => /\ status = "running" /\ status' \in {"running", "ok"}
            /\ LET f == Head(stack)
                   data == SubSeq(input_stream, pos["in"] + 1, pos'["in"])
                   idx == IF pc = "decode" THEN chunk_index ELSE f.start \div CHUNK_SIZE
               IN /\ chunk_chaining_value(data, idx, f.fin) = f.cv
                  /\ AuthenticStack
    /\ status \in {"hash mismatch", "unexpected EOF"}
         => (pos' = pos /\ output_stream' = output_stream)

C6_VerifiedBeforeEmit == [](C6_Held) /\ [][C6_Step]_vars

C6_Witness ==
    /\ pc = "slice_decoded" /\ tamper = "header" /\ status = "hash mismatch"
    /\ output_stream # <<>>
    /\ output_stream # Range(slice_arg[1], slice_arg[2])

\* C7: for start >= |x| or len = 0, the slice is the header, the parent nodes on the
\* path to one covering chunk (the chunk holding start, or the last chunk when
\* start >= |x|) and that chunk's bytes; bao_decode_slice reads all of it, passes
\* every check, ends without error and writes nothing.
C7_DegenerateSlice ==
    Degenerate =>
        /\ pc = "sliced"
             => input_stream = encode_len(Len(x))
                               \o Chain(x, 0, CoveringChunk(slice_arg[1]))
        /\ (pc \in {"decode_slice", "slice_decoded"} /\ tamper = "none")
             => output_stream = <<>>
        /\ (pc = "slice_decoded" /\ tamper = "none")
             => (status = "ok" /\ pos["in"] = Len(input_stream))

C7_Witness ==
    /\ pc = "slice_decoded" /\ tamper = "none" /\ status = "ok"
    /\ Len(x) = 3 * CHUNK_SIZE + 1
    /\ slice_arg = <<Len(x) + 1, 2>>
    /\ pos["in"] = HEADER_SIZE + 2 * PARENT_SIZE + 1

\* C2: read from a source whose read(CHUNK_SIZE) returns CHUNK_SIZE bytes whenever
\* that many remain, bao_hash returns the root hash bao_encode returns.
C2_HashAgreement ==
    (pc = "hashed" /\ full_reads) => result = bao_encode(x, FALSE).hash

C2_Witness ==
    /\ pc = "hashed" /\ full_reads /\ chunks = 4 /\ Len(subtrees) = 1
    /\ result = bao_encode(x, TRUE).hash

\* C9: whenever bao_hash's loop is about to read or has reached EOF, the stack holds
\* popcount(chunks) entries: the chaining values of the complete subtrees given by
\* the set bits of chunks, most significant at the bottom, over chunks 0..chunks-1;
\* so it is not empty when chunks > 0.
C9_StackInvariant ==
    pc \in {"hash", "hashed"} =>
        /\ Len(subtrees) = popcount(chunks)
        /\ subtrees = CompleteSubtrees(0, chunks)
        /\ chunks > 0 => subtrees # <<>>

C9_Witness ==
    /\ pc = "hash" /\ chunks = 3 /\ Len(subtrees) = 2 /\ ~full_reads

\* C10 as claimed: however x is delivered (reads of 1..CHUNK_SIZE bytes, short reads
\* allowed), bao_hash returns the root hash bao_encode returns, and the buffer it
\* hashes as a chunk never holds more than CHUNK_SIZE bytes.
C10_ReadSplitIndependent ==
    /\ pc = "hashed" => result = bao_encode(x, FALSE).hash
    /\ pc \in {"hash", "hashed"} /\ source_pos = Len(x) => Len(buf) <= CHUNK_SIZE

\* C8 as claimed: left_len(L) = 1024 * p, p the largest power of two that is at
\* most ceiling((L-1)/1024).
C8_LeftLenCeiling ==
    pc = "geom_done" =>
        llen = SOURCE_CHUNK_SIZE
               * LargestPowerOfTwo((parent_len - 1 + SOURCE_CHUNK_SIZE - 1)
                                   \div SOURCE_CHUNK_SIZE)

\* C8 as amended: left_len(L) = 1024 * p, p the largest power of two that is at
\* most floor((L-1)/1024).
C8_LeftLenFloor ==
    pc = "geom_done" =>
        llen = SOURCE_CHUNK_SIZE
               * LargestPowerOfTwo((parent_len - 1) \div SOURCE_CHUNK_SIZE)

C8_Witness ==
    /\ pc = "geom_done"
    /\ parent_len = SOURCE_CHUNK_SIZE + 2
    /\ llen = SOURCE_CHUNK_SIZE

====
